---- MODULE Spec2Model ----
(***************************************************************************)
(* Model of class Buffer of Chapter02/mybuffer.cpp: a float array owned    *)
(* through a raw pointer, with the five special member functions and swap. *)
(*                                                                         *)
(* The free store is a finite set of addresses.  operator new[] hands out  *)
(* any address that is not live (so the address of a released block can be *)
(* handed out again) or throws std::bad_alloc; a fresh block holds         *)
(* indeterminate values.  operator delete[] of a null pointer does         *)
(* nothing, of a live block releases it, and of a block that is not live   *)
(* is undefined behaviour: the run-time either aborts the process or does  *)
(* not notice.  Reading elements outside a live block yields indeterminate *)
(* values.                                                                 *)
(***************************************************************************)
EXTENDS Integers, Sequences, FiniteSets, TLC

\* Number of addresses the free store can hand out.
NumAddr == 2
\* Longest initializer list.
MaxLen == 1

\* float* ptr_{nullptr}
nullptr == 0

\* The Buffer objects of main.
Buf == {"b1", "b2"}
\* No object: the operand a member function does not have.
NoBuf == "none"
Addr == 1..NumAddr
\* The float values 1.0f and 2.0f.
Val == {1, 2}

\* All float sequences of length n.
Floats(n) == [1..n -> Val]

\* The initializer lists a Buffer is constructed from.
Lists == UNION {Floats(n) : n \in 0..MaxLen}

VARIABLES
    alive,    \* alive[b]: b has been constructed and not yet destroyed
    size_,    \* size_[b]: the member size_
    ptr_,     \* ptr_[b]: the member ptr_, nullptr or an address
    heap,     \* heap[a]: [live, data] of the block at address a
    aborted,  \* the run-time has aborted the process
    last      \* the last member function run, its operands and its outcome

vars == <<alive, size_, ptr_, heap, aborted, last>>

\* A block that is not allocated.
FreeBlock == [live |-> FALSE, data |-> <<>>]

\* The members size_t size_{0} and float* ptr_{nullptr} of every object, and
\* the blocks of the free store.
TypeOK ==
    /\ alive \in [Buf -> BOOLEAN]
    /\ size_ \in [Buf -> 0..MaxLen]
    /\ ptr_ \in [Buf -> {nullptr} \cup Addr]
    /\ \A a \in Addr : heap[a].live \in BOOLEAN /\ heap[a].data \in Lists
    /\ aborted \in BOOLEAN

\* What last records: the member function, the object it ran on (dst), its
\* argument (src), whether operator new[] threw, whether delete[] was given a
\* block that was not live, and whether elements were read through a pointer
\* to a block that was not live.
Record(op, dst, src, threw, doubleFree, staleRead) ==
    [op |-> op, dst |-> dst, src |-> src, threw |-> threw,
     doubleFree |-> doubleFree, staleRead |-> staleRead]

(***************************************************************************)
(* The free store.                                                         *)
(***************************************************************************)

\* new float[n]: throws, or returns an address that is not live.  No element
\* of the block has been written: data holds the elements written so far.
OperatorNew(h, n) ==
    {[threw |-> TRUE, p |-> nullptr, heap |-> h]}
    \cup {[threw |-> FALSE, p |-> a,
           heap |-> [h EXCEPT ![a] = [live |-> TRUE, data |-> <<>>]]] :
            a \in {x \in Addr : ~h[x].live}}

\* delete[] p.
OperatorDelete(h, p) ==
    IF p = nullptr
    THEN {[heap |-> h, doubleFree |-> FALSE, aborted |-> FALSE]}
    ELSE IF h[p].live
    THEN {[heap |-> [h EXCEPT ![p] = FreeBlock], doubleFree |-> FALSE,
           aborted |-> FALSE]}
    ELSE {[heap |-> h, doubleFree |-> TRUE, aborted |-> ab] : ab \in BOOLEAN}

\* The values read from p[0] .. p[n-1]: the block's, where p is a live block
\* and the element has been written, and indeterminate otherwise.
ReadSet(h, p, n) ==
    {s \in Floats(n) :
        \A i \in 1..n :
            (p \in Addr /\ h[p].live /\ i <= Len(h[p].data)) => s[i] = h[p].data[i]}

\* n elements are read through p, which points to no live block of h.
StaleRead(h, p, n) == n > 0 /\ (p = nullptr \/ ~h[p].live)

\* std::copy(first, first + n, dest): the free stores that may result.
StdCopy(h, first, n, dest) ==
    {[h EXCEPT ![dest].data = s] : s \in ReadSet(h, first, n)}

(***************************************************************************)
(* Member functions.                                                       *)
(***************************************************************************)

\* Buffer(const std::initializer_list<float>& values)
Construct(b, values) ==
    /\ ~aborted
    /\ ~alive[b]
    /\ \E r \in OperatorNew(heap, Len(values)) :
        IF r.threw
        THEN /\ UNCHANGED <<alive, size_, ptr_, heap, aborted>>
             /\ last' = Record("construct", b, NoBuf, TRUE, FALSE, FALSE)
        ELSE /\ alive' = [alive EXCEPT ![b] = TRUE]
             /\ size_' = [size_ EXCEPT ![b] = Len(values)]
             /\ ptr_' = [ptr_ EXCEPT ![b] = r.p]
             /\ heap' = [r.heap EXCEPT ![r.p].data = values]
             /\ UNCHANGED aborted
             /\ last' = Record("construct", b, NoBuf, FALSE, FALSE, FALSE)

\* Buffer(const Buffer& other)
CopyConstruct(b, other) ==
    /\ ~aborted
    /\ ~alive[b]
    /\ alive[other]
    /\ LET n == size_[other] IN
       \E r \in OperatorNew(heap, n) :
        IF r.threw
        THEN /\ UNCHANGED <<alive, size_, ptr_, heap, aborted>>
             /\ last' = Record("copy_construct", b, other, TRUE, FALSE, FALSE)
        ELSE /\ alive' = [alive EXCEPT ![b] = TRUE]
             /\ size_' = [size_ EXCEPT ![b] = n]
             /\ ptr_' = [ptr_ EXCEPT ![b] = r.p]
             /\ heap' \in StdCopy(r.heap, ptr_[other], n, r.p)
             /\ UNCHANGED aborted
             /\ last' = Record("copy_construct", b, other, FALSE, FALSE,
                               StaleRead(heap, ptr_[other], n))

\* The members and the free store after the statements of
\* operator=(const Buffer&) that follow delete[] ptr_, run on the free store h
\* that delete[] left: new float[other.size_] throws and leaves ptr_ and size_
\* as they are, or ptr_ and size_ are assigned and then size_ elements are
\* copied from other.ptr_ to ptr_ (b and other may be the same object, and
\* then other.ptr_ is the new block).
CopyAssignBody(b, other, h) ==
    {[threw |-> TRUE, size_ |-> size_, ptr_ |-> ptr_, heap |-> h,
      staleRead |-> FALSE]}
    \cup
    UNION {LET p1 == [ptr_ EXCEPT ![b] = r.p]
               s1 == [size_ EXCEPT ![b] = size_[other]]
           IN  {[threw |-> FALSE, size_ |-> s1, ptr_ |-> p1, heap |-> h2,
                 staleRead |-> other # b /\ StaleRead(h, ptr_[other], s1[b])] :
                    h2 \in StdCopy(r.heap, p1[other], s1[b], p1[b])} :
           r \in {x \in OperatorNew(h, size_[other]) : ~x.threw}}

\* Buffer& operator=(const Buffer& other)
CopyAssign(b, other) ==
    /\ ~aborted
    /\ alive[b]
    /\ alive[other]
    /\ \E d \in OperatorDelete(heap, ptr_[b]) :
        IF d.aborted
        THEN /\ aborted' = TRUE
             /\ UNCHANGED <<alive, size_, ptr_, heap>>
             /\ last' = Record("copy_assign", b, other, FALSE, TRUE, FALSE)
        ELSE \E r \in CopyAssignBody(b, other, d.heap) :
             /\ size_' = r.size_
             /\ ptr_' = r.ptr_
             /\ heap' = r.heap
             /\ UNCHANGED <<alive, aborted>>
             /\ last' = Record("copy_assign", b, other, r.threw, d.doubleFree,
                               r.staleRead)

\* ~Buffer()
Destroy(b) ==
    /\ ~aborted
    /\ alive[b]
    /\ \E d \in OperatorDelete(heap, ptr_[b]) :
        IF d.aborted
        THEN /\ aborted' = TRUE
             /\ UNCHANGED <<alive, size_, ptr_, heap>>
             /\ last' = Record("destroy", b, NoBuf, FALSE, TRUE, FALSE)
        ELSE /\ heap' = d.heap
             /\ ptr_' = [ptr_ EXCEPT ![b] = nullptr]
             /\ alive' = [alive EXCEPT ![b] = FALSE]
             /\ UNCHANGED <<size_, aborted>>
             /\ last' = Record("destroy", b, NoBuf, FALSE, d.doubleFree, FALSE)

\* The members after the initializers and the two assignments of
\* Buffer(Buffer&&), in order.
MoveConstructMembers(b, other) ==
    LET s1 == [size_ EXCEPT ![b] = size_[other]]
        p1 == [ptr_ EXCEPT ![b] = ptr_[other]]
        p2 == [p1 EXCEPT ![other] = nullptr]
        s2 == [s1 EXCEPT ![other] = 0]
    IN  [size_ |-> s2, ptr_ |-> p2]

\* Buffer(Buffer&& other) noexcept
MoveConstruct(b, other) ==
    /\ ~aborted
    /\ ~alive[b]
    /\ alive[other]
    /\ size_' = MoveConstructMembers(b, other).size_
    /\ ptr_' = MoveConstructMembers(b, other).ptr_
    /\ alive' = [alive EXCEPT ![b] = TRUE]
    /\ UNCHANGED <<heap, aborted>>
    /\ last' = Record("move_construct", b, other, FALSE, FALSE, FALSE)

\* operator=(Buffer&&) without its last two assignments: other keeps its
\* pointer and its size.
MoveAssignMembersNoReset(b, other) ==
    [size_ |-> [size_ EXCEPT ![b] = size_[other]],
     ptr_ |-> [ptr_ EXCEPT ![b] = ptr_[other]]]

\* operator=(Buffer&&) without its last assignment, other.size_ = 0.
MoveAssignMembersKeepSize(b, other) ==
    LET p1 == [ptr_ EXCEPT ![b] = ptr_[other]]
        s1 == [size_ EXCEPT ![b] = size_[other]]
        p2 == [p1 EXCEPT ![other] = nullptr]
    IN  [size_ |-> s1, ptr_ |-> p2]

\* The members after the four assignments of operator=(Buffer&&), in order;
\* b and other may be the same object.
MoveAssignMembers(b, other) ==
    LET p1 == [ptr_ EXCEPT ![b] = ptr_[other]]
        s1 == [size_ EXCEPT ![b] = size_[other]]
        p2 == [p1 EXCEPT ![other] = nullptr]
        s2 == [s1 EXCEPT ![other] = 0]
    IN  [size_ |-> s2, ptr_ |-> p2]

\* Buffer& operator=(Buffer&& other) noexcept
MoveAssign(b, other) ==
    /\ ~aborted
    /\ alive[b]
    /\ alive[other]
    /\ size_' = MoveAssignMembers(b, other).size_
    /\ ptr_' = MoveAssignMembers(b, other).ptr_
    /\ UNCHANGED <<alive, heap, aborted>>
    /\ last' = Record("move_assign", b, other, FALSE, FALSE, FALSE)

\* swap without std::swap(size_, other.size_).
SwapMembersPtrOnly(sz, pt, b, other) ==
    [size_ |-> sz,
     ptr_ |-> [pt EXCEPT ![b] = pt[other], ![other] = pt[b]]]

\* The members sz, pt after std::swap(size_, other.size_) and then
\* std::swap(ptr_, other.ptr_).
SwapMembers(sz, pt, b, other) ==
    [size_ |-> [sz EXCEPT ![b] = sz[other], ![other] = sz[b]],
     ptr_ |-> [pt EXCEPT ![b] = pt[other], ![other] = pt[b]]]

\* void swap(Buffer& other) noexcept
Swap(b, other) ==
    /\ ~aborted
    /\ alive[b]
    /\ alive[other]
    /\ size_' = SwapMembers(size_, ptr_, b, other).size_
    /\ ptr_' = SwapMembers(size_, ptr_, b, other).ptr_
    /\ UNCHANGED <<alive, heap, aborted>>
    /\ last' = Record("swap", b, other, FALSE, FALSE, FALSE)

Init ==
    /\ alive = [b \in Buf |-> FALSE]
    /\ size_ = [b \in Buf |-> 0]
    /\ ptr_ = [b \in Buf |-> nullptr]
    /\ heap = [a \in Addr |-> FreeBlock]
    /\ aborted = FALSE
    /\ last = Record("none", NoBuf, NoBuf, FALSE, FALSE, FALSE)

Next ==
    \/ \E b \in Buf, values \in Lists : Construct(b, values)
    \/ \E b, other \in Buf : CopyConstruct(b, other)
    \/ \E b, other \in Buf : CopyAssign(b, other)
    \/ \E b \in Buf : Destroy(b)
    \/ \E b, other \in Buf : MoveConstruct(b, other)
    \/ \E b, other \in Buf : MoveAssign(b, other)
    \/ \E b, other \in Buf : Swap(b, other)

Spec == Init /\ [][Next]_vars

(***************************************************************************)
(* Properties.                                                             *)
(***************************************************************************)

\* b, with members sz and pt over free store h, holds a sequence: it is
\* empty, or ptr_ is a live block of exactly size_ written elements.
Holds(sz, pt, h, b) ==
    \/ pt[b] = nullptr /\ sz[b] = 0
    \/ pt[b] \in Addr /\ h[pt[b]].live /\ Len(h[pt[b]].data) = sz[b]

\* The sequence b holds.
Elements(pt, h, b) == IF pt[b] = nullptr THEN <<>> ELSE h[pt[b]].data

\* The step is member function op run on dst with argument src.
Ran(op, dst, src) ==
    last'.op = op /\ last'.dst = dst /\ last'.src = src

\* C1: self-copy-assignment b = b (with the allocation succeeding) of a b
\* that holds a sequence S leaves b holding exactly S, reads no elements
\* through a pointer to a released block, and releases no block twice.
C1_SelfCopyAssignKeepsElements ==
    [][\A b \in Buf :
        (Ran("copy_assign", b, b) /\ ~last'.threw /\ Holds(size_, ptr_, heap, b))
        => /\ Holds(size_', ptr_', heap', b)
           /\ Elements(ptr_', heap', b) = Elements(ptr_, heap, b)
           /\ ~last'.staleRead
           /\ ~last'.doubleFree]_vars

\* C2: move assignment a = std::move(b), a and b distinct, releases the block
\* a owned before the call, and a then has b's former pointer.
C2_MoveAssignReleasesOld ==
    [][\A a, b \in Buf :
        (/\ Ran("move_assign", a, b)
         /\ a # b
         /\ ptr_[a] # nullptr
         /\ heap[ptr_[a]].live
         /\ ptr_[a] # ptr_[b])
        => /\ ~heap'[ptr_[a]].live
           /\ \A c \in Buf : ptr_'[c] # ptr_[a]
           /\ ptr_'[a] = ptr_[b]]_vars

\* C3: every live block is owned by some live Buffer, so that nothing is
\* live once every Buffer has been destroyed.
C3_NoLeak ==
    \A a \in Addr : heap[a].live => \E b \in Buf : alive[b] /\ ptr_[b] = a

\* C4: if the allocation of a copy assignment a = b fails, a is exactly as
\* before the call: same size, same pointer, the block still live with the
\* same elements.
C4_CopyAssignAllOrNothing ==
    [][\A a, b \in Buf :
        (Ran("copy_assign", a, b) /\ last'.threw /\ Holds(size_, ptr_, heap, a))
        => /\ size_'[a] = size_[a]
           /\ ptr_'[a] = ptr_[a]
           /\ Holds(size_', ptr_', heap', a)
           /\ Elements(ptr_', heap', a) = Elements(ptr_, heap, a)]_vars

\* C5: no two distinct live Buffers hold a pointer to the same block, and no
\* member function releases a block that is not live.
C5_UniqueOwnership ==
    /\ \A b, c \in Buf :
        (b # c /\ alive[b] /\ alive[c] /\ ptr_[b] # nullptr) => ptr_[b] # ptr_[c]
    /\ ~last.doubleFree

\* C6: every live Buffer whose size is 0 has a null pointer.
C6_EmptyHasNoAllocation ==
    \A b \in Buf : (alive[b] /\ size_[b] = 0) => ptr_[b] = nullptr

\* C8: copy construction or copy assignment (run to its end, the allocation
\* succeeding) from a B that holds S into a distinct B2 leaves B2 holding S in a block
\* other than B's and leaves B's size, pointer and elements as they were;
\* and no member function run on other objects changes the elements of a
\* Buffer that holds a sequence.
C8_DeepCopyIndependence ==
    [][/\ \A d, s \in Buf :
            (/\ d # s
             /\ Ran("copy_construct", d, s) \/ Ran("copy_assign", d, s)
             /\ ~last'.threw
             /\ ~aborted'
             /\ Holds(size_, ptr_, heap, s))
            => /\ Holds(size_', ptr_', heap', d)
               /\ Elements(ptr_', heap', d) = Elements(ptr_, heap, s)
               /\ ptr_'[d] # ptr_'[s]
               /\ size_'[s] = size_[s]
               /\ ptr_'[s] = ptr_[s]
               /\ Holds(size_', ptr_', heap', s)
               /\ Elements(ptr_', heap', s) = Elements(ptr_, heap, s)
       /\ \A b \in Buf :
            (/\ alive[b]
             /\ Holds(size_, ptr_, heap, b)
             /\ last'.dst # b
             /\ last'.src # b)
            => /\ Holds(size_', ptr_', heap', b)
               /\ Elements(ptr_', heap', b) = Elements(ptr_, heap, b)]_vars

\* C7: move construction or move assignment of B2 from a distinct B gives B2
\* exactly B's pointer and size (so B's elements, in the very block B owned),
\* allocates, releases and writes nothing, and leaves B with size 0 and a
\* null pointer.
C7_MoveTransfersOwnership ==
    [][\A d, s \in Buf :
        (d # s /\ (Ran("move_construct", d, s) \/ Ran("move_assign", d, s)))
        => /\ ptr_'[d] = ptr_[s]
           /\ size_'[d] = size_[s]
           /\ heap' = heap
           /\ ptr_'[s] = nullptr
           /\ size_'[s] = 0
           /\ Holds(size_, ptr_, heap, s)
                => /\ Holds(size_', ptr_', heap', d)
                   /\ Elements(ptr_', heap', d) = Elements(ptr_, heap, s)]_vars

\* A move assignment between distinct objects has moved a non-empty sequence.
C7_Witness ==
    /\ last.op = "move_assign"
    /\ last.dst # last.src
    /\ size_[last.dst] > 0
    /\ Holds(size_, ptr_, heap, last.dst)
    /\ ptr_[last.src] = nullptr
    /\ size_[last.src] = 0

\* C9: self-move-assignment leaves b unchanged or empty (size 0, null
\* pointer), releases nothing, and leaves in b no pointer to a block that is
\* not live.
C9_SelfMoveAssignDefined ==
    [][\A b \in Buf :
        Ran("move_assign", b, b)
        => /\ \/ size_'[b] = size_[b] /\ ptr_'[b] = ptr_[b]
              \/ size_'[b] = 0 /\ ptr_'[b] = nullptr
           /\ heap' = heap
           /\ ~last'.doubleFree
           /\ Holds(size_, ptr_, heap, b) => Holds(size_', ptr_', heap', b)]_vars

\* A self-move-assignment has run on a buffer that held a block: the buffer
\* is empty and the block is still live.
C9_Witness ==
    /\ last.op = "move_assign"
    /\ last.dst = last.src
    /\ size_[last.dst] = 0
    /\ ptr_[last.dst] = nullptr
    /\ \E a \in Addr : heap[a].live /\ \A b \in Buf : ptr_[b] # a

\* C10: A.swap(B) exchanges exactly the sizes and the pointers of A and B (so
\* each holds the other's elements), allocates and releases nothing, a second
\* swap restores the members, and swapping a buffer with itself changes
\* nothing.
C10_SwapExchanges ==
    [][\A a, b \in Buf :
        Ran("swap", a, b)
        => /\ size_'[a] = size_[b] /\ size_'[b] = size_[a]
           /\ ptr_'[a] = ptr_[b] /\ ptr_'[b] = ptr_[a]
           /\ \A c \in Buf \ {a, b} : size_'[c] = size_[c] /\ ptr_'[c] = ptr_[c]
           /\ heap' = heap
           /\ alive' = alive
           /\ Elements(ptr_', heap', a) = Elements(ptr_, heap, b)
           /\ Elements(ptr_', heap', b) = Elements(ptr_, heap, a)
           /\ SwapMembers(size_', ptr_', a, b) = [size_ |-> size_, ptr_ |-> ptr_]
           /\ a = b => size_' = size_ /\ ptr_' = ptr_]_vars

\* Two distinct buffers that hold different sequences have been swapped.
C10_Witness ==
    /\ last.op = "swap"
    /\ last.dst # last.src
    /\ Holds(size_, ptr_, heap, last.dst)
    /\ Holds(size_, ptr_, heap, last.src)
    /\ Elements(ptr_, heap, last.dst) # Elements(ptr_, heap, last.src)
    /\ ptr_[last.dst] # ptr_[last.src]
====
